---------------------------- MODULE Spec2Model ----------------------------
(***************************************************************************)
(* Session store of the library client: the AuthProvider of               *)
(* contexts/AuthContext (reducer, restore effect, login, register,        *)
(* logout, derived context value) together with the localStorage entries  *)
(* it persists and the auth calls it has in flight.                       *)
(***************************************************************************)
EXTENDS Integers, Sequences, FiniteSets, TLC

(***************************************************************************)
(* Bounds of the model.                                                    *)
(***************************************************************************)
\* number of login/register calls started in one process lifetime
MaxCalls == 3

(***************************************************************************)
(* JavaScript values: null, strings and objects.  An object is the         *)
(* sequence of its <<key, value>> properties in insertion order, all of    *)
(* whose values are strings here.                                          *)
(***************************************************************************)
JSNull == [type |-> "null", val |-> <<>>]
Undefined == [type |-> "undefined", val |-> <<>>]
Str(s) == [type |-> "string", val |-> s]
Obj(props) == [type |-> "object", val |-> props]

\* !!v
Truthy(v) ==
  CASE v.type = "null" -> FALSE
    [] v.type = "undefined" -> FALSE
    [] v.type = "string" -> v.val # ""
    [] v.type = "object" -> TRUE

\* v?.key
Get(v, key) ==
  IF v.type = "object" /\ \E i \in 1..Len(v.val) : v.val[i][1] = key
  THEN Str(v.val[CHOOSE i \in 1..Len(v.val) : v.val[i][1] = key][2])
  ELSE Undefined

User(id, username, email, role) ==
  Obj(<< <<"_id", id>>, <<"username", username>>, <<"email", email>>, <<"role", role>> >>)

\* the users the backing service knows
Users == { User("1", "u", "u@x.com", "user"), User("2", "a", "a@x.com", "admin") }

\* the token pairs the backing service issues
Tokens == { [auth_token |-> "T", refresh_token |-> "R"],
            [auth_token |-> "T2", refresh_token |-> "R2"] }

\* 2xx bodies of POST /auth/login and POST /auth/register
AuthResponse == [token : Tokens, user : Users]

\* failures of an auth call: no response received, 401
Errors == { "Network Error", "401" }

LoginRequest == { [email |-> "u@x.com", password |-> "p"] }
RegisterRequest == { [username |-> "a", email |-> "a@x.com", password |-> "p"] }

(***************************************************************************)
(* JSON.stringify and JSON.parse on the values above.                      *)
(***************************************************************************)
RECURSIVE stringifyProps(_)
stringifyProps(props) ==
  IF props = <<>> THEN ""
  ELSE "\"" \o props[1][1] \o "\":\"" \o props[1][2] \o "\""
       \o (IF Len(props) > 1 THEN "," ELSE "")
       \o stringifyProps(Tail(props))

JSONstringify(v) ==
  IF v.type = "null" THEN "null"
  ELSE "{" \o stringifyProps(v.val) \o "}"

\* the JSON documents JSON.parse accepts in this model
JSONValues == Users \cup { Obj(<<>>), JSNull }

JSONparses(text) == \E v \in JSONValues : JSONstringify(v) = text

JSONparse(text) == CHOOSE v \in JSONValues : JSONstringify(v) = text

(***************************************************************************)
(* localStorage: a function from the keys present to their strings.        *)
(***************************************************************************)
StorageKeys == { "auth_token", "refresh_token", "user" }

getItem(ls, key) == IF key \in DOMAIN ls THEN Str(ls[key]) ELSE JSNull

setItem(ls, key, value) ==
  [k \in DOMAIN ls \cup {key} |-> IF k = key THEN value ELSE ls[k]]

removeItem(ls, key) == [k \in DOMAIN ls \ {key} |-> ls[k]]

\* what a previous process, or anything else on the origin, may have left
InitialStorages ==
  LET StoredAuthTokens == { "T" }
      StoredRefreshTokens == { "R" }
      StoredUsers == { JSONstringify(u) : u \in Users } \cup { "{}", "null", "not json" }
  IN { ls \in UNION { [D -> StoredAuthTokens \cup StoredRefreshTokens \cup StoredUsers]
                      : D \in SUBSET StorageKeys } :
         /\ "auth_token" \in DOMAIN ls => ls["auth_token"] \in StoredAuthTokens
         /\ "refresh_token" \in DOMAIN ls => ls["refresh_token"] \in StoredRefreshTokens
         /\ "user" \in DOMAIN ls => ls["user"] \in StoredUsers }

(***************************************************************************)
(* authReducer, one operator per case.                                     *)
(***************************************************************************)
LOGIN_START(s) == [s EXCEPT !.loading = TRUE]

LOGIN_SUCCESS_dropsToken(s, payload) ==
  [user |-> payload.user, token |-> JSNull, loading |-> FALSE]

LOGIN_SUCCESS(s, payload) ==
  [user |-> payload.user, token |-> Str(payload.token), loading |-> FALSE]

LOGIN_FAILURE_keepsUser(s) == [s EXCEPT !.token = JSNull, !.loading = FALSE]

LOGIN_FAILURE(s) == [user |-> JSNull, token |-> JSNull, loading |-> FALSE]

LOGOUT(s) == [user |-> JSNull, token |-> JSNull, loading |-> FALSE]

RESTORE_SESSION_keepsLoading(s, payload) ==
  [s EXCEPT !.user = payload.user, !.token = Str(payload.token)]

RESTORE_SESSION(s, payload) ==
  [user |-> payload.user, token |-> Str(payload.token), loading |-> FALSE]

NoPayload == [user |-> JSNull, token |-> ""]

authReducer(s, action) ==
  CASE action.type = "LOGIN_START" -> LOGIN_START(s)
    [] action.type = "LOGIN_SUCCESS" -> LOGIN_SUCCESS(s, action.payload)
    [] action.type = "LOGIN_FAILURE" -> LOGIN_FAILURE(s)
    [] action.type = "LOGOUT" -> LOGOUT(s)
    [] action.type = "RESTORE_SESSION" -> RESTORE_SESSION(s, action.payload)
    [] OTHER -> s

initialState == [user |-> JSNull, token |-> JSNull, loading |-> TRUE]

(***************************************************************************)
(* The steps of the provider's functions that do not touch the state.      *)
(***************************************************************************)
restoreSession_readsRefreshToken(ls) ==
  LET token == getItem(ls, "refresh_token")
      userStr == getItem(ls, "user")
  IN  IF Truthy(token) /\ Truthy(userStr)
      THEN IF JSONparses(userStr.val)
           THEN [type |-> "RESTORE_SESSION",
                 payload |-> [user |-> JSONparse(userStr.val), token |-> token.val]]
           ELSE [type |-> "LOGIN_FAILURE", payload |-> NoPayload]
      ELSE [type |-> "LOGIN_FAILURE", payload |-> NoPayload]

\* the action restoreSession dispatches for the storage it finds
restoreSession(ls) ==
  LET token == getItem(ls, "auth_token")
      userStr == getItem(ls, "user")
  IN  IF Truthy(token) /\ Truthy(userStr)
      THEN IF JSONparses(userStr.val)
           THEN [type |-> "RESTORE_SESSION",
                 payload |-> [user |-> JSONparse(userStr.val), token |-> token.val]]
           ELSE [type |-> "LOGIN_FAILURE", payload |-> NoPayload]
      ELSE [type |-> "LOGIN_FAILURE", payload |-> NoPayload]

storeSession_swapsTokens(ls, response) ==
  setItem(setItem(setItem(ls, "auth_token", response.token.refresh_token),
                  "refresh_token", response.token.auth_token),
          "user", JSONstringify(response.user))

storeSession_skipsRefreshToken(ls, response) ==
  setItem(setItem(ls, "auth_token", response.token.auth_token),
          "user", JSONstringify(response.user))

\* the three setItem calls of login and register
storeSession(ls, response) ==
  setItem(setItem(setItem(ls, "auth_token", response.token.auth_token),
                  "refresh_token", response.token.refresh_token),
          "user", JSONstringify(response.user))

clearSession_keepsRefreshToken(ls) ==
  removeItem(removeItem(ls, "auth_token"), "user")

\* the three removeItem calls of logout
clearSession(ls) ==
  removeItem(removeItem(removeItem(ls, "auth_token"), "refresh_token"), "user")

rethrow_swallows(error) == "fulfilled"

\* how the promise of login / register settles in the catch block: throw error
rethrow(error) == error

(***************************************************************************)
(* State.                                                                  *)
(***************************************************************************)
VARIABLES
  state,         \* the reducer state of AuthProvider
  localStorage,  \* the entries present in window.localStorage
  restored,      \* the restore effect has run
  calls,         \* the login/register calls started, in order of their start
  last,          \* history: the operation that produced this state
  apiCalls,      \* the data calls the hooks started, in order of their start
  booksHook,     \* the state of a useBooks instance
  mutLoading,    \* the loading flag of each mutation hook instance
  booksPage,     \* the inputs of the Books page
  loansPage,     \* the My Loans page: its tab and the time of its render
  userLoansHook, \* the state of the useUserLoans instance of My Loans
  statsHook,     \* the state of a useLoanStats instance
  serverLoans    \* the loans of the user as the server holds them

sessionVars == <<state, localStorage, restored, calls, last>>
hookVars == <<apiCalls, booksHook, mutLoading>>
pageVars == <<booksPage, loansPage, userLoansHook, statsHook, serverLoans>>
dataVars == <<hookVars, pageVars>>
vars == <<sessionVars, dataVars>>

\* contextValue
isAuthenticated == Truthy(state.user) /\ Truthy(state.token)
isAdmin == Get(state.user, "role") = Str("admin")
loading == state.loading

contextValue ==
  [user |-> state.user, token |-> state.token, loading |-> loading,
   isAuthenticated |-> isAuthenticated, isAdmin |-> isAdmin]

\* ProtectedRoute: what it renders
ProtectedRoute_forgetsAdmin(requireAdmin) ==
  IF loading THEN "loading"
  ELSE IF ~isAuthenticated THEN "Navigate /login"
  ELSE "children"

ProtectedRoute(requireAdmin) ==
  IF loading THEN "loading"
  ELSE IF ~isAuthenticated THEN "Navigate /login"
  ELSE IF requireAdmin /\ ~isAdmin THEN "Navigate /"
  ELSE "children"

\* the four session states of the design, read off the provider
Unknown == loading /\ ~restored
Authenticating == loading /\ restored
Authenticated == ~loading /\ isAuthenticated
Anonymous == ~loading /\ ~isAuthenticated

SessionKind ==
  CASE loading /\ ~restored -> "Unknown"
    [] loading /\ restored -> "Authenticating"
    [] ~loading /\ isAuthenticated -> "Authenticated"
    [] OTHER -> "Anonymous"

NoResponse == [token |-> [auth_token |-> "", refresh_token |-> ""], user |-> JSNull]

Record(op, call, response) ==
  [op |-> op, call |-> call, response |-> response, error |-> "",
   pre |-> SessionKind, preAuth |-> isAuthenticated]

\* useBooks(): useState([]), useState(false), useState(null), useState({})
initialBooksHook ==
  [books |-> <<>>, loading |-> FALSE, error |-> JSNull, filters |-> Obj(<<>>)]

\* the four mutation hooks
MutationHooks ==
  { "useBookMutations", "useLoanMutations", "useUserMutations", "useCategoryMutations" }

\* Books: useState('') for the three inputs
initialBooksPage ==
  [searchTerm |-> <<>>, authorFilter |-> <<>>, genreFilter |-> <<>>]

\* MyLoans: useState('active'); the clock is read at each render
initialLoansPage == [activeTab |-> "active", now |-> 5 * (1000 * 60 * 60 * 24)]

\* useUserLoans: useState([]), useState(false), useState(null), useState(initialFilters || {})
initialUserLoansHook ==
  [loans |-> <<>>, loading |-> FALSE, error |-> JSNull,
   filters |-> Obj(<< <<"status", [type |-> "text", val |-> << "active" >>]>> >>)]

\* useLoanStats: useState(null), useState(0), useState([]), useState(false), useState(null)
initialStatsHook ==
  [stats |-> JSNull, activeCount |-> 0, overdueLoans |-> <<>>,
   loading |-> FALSE, error |-> JSNull, fetches |-> <<>>]

PagesInit ==
  /\ booksPage = initialBooksPage
  /\ loansPage = initialLoansPage
  /\ userLoansHook = initialUserLoansHook
  /\ statsHook = initialStatsHook
  /\ serverLoans = <<>>

DataInit ==
  /\ apiCalls = <<>>
  /\ booksHook = initialBooksHook
  /\ mutLoading = [h \in MutationHooks |-> FALSE]
  /\ PagesInit

Init ==
  /\ state = initialState
  /\ localStorage \in InitialStorages
  /\ restored = FALSE
  /\ calls = <<>>
  /\ last = [op |-> "init", call |-> 0, response |-> NoResponse, error |-> "",
             pre |-> "Unknown", preAuth |-> FALSE]
  /\ DataInit

(***************************************************************************)
(* Operations.                                                             *)
(***************************************************************************)
\* the mount effect: restoreSession().  React flushes it before it handles
\* any event, so every other operation finds it done.
Restore ==
  /\ ~restored
  /\ state' = authReducer(state, restoreSession(localStorage))
  /\ restored' = TRUE
  /\ last' = Record("restore", 0, NoResponse)
  /\ UNCHANGED <<localStorage, calls, dataVars>>

\* login up to its await
Login(credentials) ==
  /\ restored
  /\ Len(calls) < MaxCalls
  /\ state' = authReducer(state, [type |-> "LOGIN_START", payload |-> NoPayload])
  /\ calls' = Append(calls, [kind |-> "login", status |-> "pending"])
  /\ last' = Record("login", Len(calls) + 1, NoResponse)
  /\ UNCHANGED <<localStorage, restored, dataVars>>

\* login after api.auth.login resolved with a 2xx body
LoginSuccess(i, response) ==
  /\ calls[i].kind = "login" /\ calls[i].status = "pending"
  /\ localStorage' = storeSession(localStorage, response)
  /\ state' = authReducer(state,
                [type |-> "LOGIN_SUCCESS",
                 payload |-> [user |-> response.user, token |-> response.token.auth_token]])
  /\ calls' = [calls EXCEPT ![i].status = "fulfilled"]
  /\ last' = Record("login_success", i, response)
  /\ UNCHANGED <<restored, dataVars>>

\* login after api.auth.login rejected: the catch block
LoginFailure(i, error) ==
  /\ calls[i].kind = "login" /\ calls[i].status = "pending"
  /\ state' = authReducer(state, [type |-> "LOGIN_FAILURE", payload |-> NoPayload])
  /\ calls' = [calls EXCEPT ![i].status = rethrow(error)]
  /\ last' = [Record("login_failure", i, NoResponse) EXCEPT !.error = error]
  /\ UNCHANGED <<localStorage, restored, dataVars>>

\* register up to its await
Register(userData) ==
  /\ restored
  /\ Len(calls) < MaxCalls
  /\ state' = authReducer(state, [type |-> "LOGIN_START", payload |-> NoPayload])
  /\ calls' = Append(calls, [kind |-> "register", status |-> "pending"])
  /\ last' = Record("register", Len(calls) + 1, NoResponse)
  /\ UNCHANGED <<localStorage, restored, dataVars>>

\* register after api.auth.register resolved with a 2xx body
RegisterSuccess(i, response) ==
  /\ calls[i].kind = "register" /\ calls[i].status = "pending"
  /\ localStorage' = storeSession(localStorage, response)
  /\ state' = authReducer(state,
                [type |-> "LOGIN_SUCCESS",
                 payload |-> [user |-> response.user, token |-> response.token.auth_token]])
  /\ calls' = [calls EXCEPT ![i].status = "fulfilled"]
  /\ last' = Record("register_success", i, response)
  /\ UNCHANGED <<restored, dataVars>>

\* register after api.auth.register rejected: the catch block
RegisterFailure(i, error) ==
  /\ calls[i].kind = "register" /\ calls[i].status = "pending"
  /\ state' = authReducer(state, [type |-> "LOGIN_FAILURE", payload |-> NoPayload])
  /\ calls' = [calls EXCEPT ![i].status = rethrow(error)]
  /\ last' = [Record("register_failure", i, NoResponse) EXCEPT !.error = error]
  /\ UNCHANGED <<localStorage, restored, dataVars>>

\* logout
Logout ==
  /\ restored
  /\ localStorage' = clearSession(localStorage)
  /\ state' = authReducer(state, [type |-> "LOGOUT", payload |-> NoPayload])
  /\ last' = Record("logout", 0, NoResponse)
  /\ UNCHANGED <<restored, calls, dataVars>>

Next ==
  \/ Restore
  \/ \E credentials \in LoginRequest : Login(credentials)
  \/ \E i \in 1..Len(calls), response \in AuthResponse : LoginSuccess(i, response)
  \/ \E i \in 1..Len(calls), error \in Errors : LoginFailure(i, error)
  \/ \E userData \in RegisterRequest : Register(userData)
  \/ \E i \in 1..Len(calls), response \in AuthResponse : RegisterSuccess(i, response)
  \/ \E i \in 1..Len(calls), error \in Errors : RegisterFailure(i, error)
  \/ Logout

Spec == Init /\ [][Next]_vars

(***************************************************************************)
(* The session store when the mount effect runs again on the live          *)
(* provider, as React does for effects it re-runs in development: the      *)
(* reducer state is kept and restoreSession() is called once more.         *)
(***************************************************************************)
RestoreAgain ==
  /\ restored
  /\ state' = authReducer(state, restoreSession(localStorage))
  /\ last' = Record("restore_again", 0, NoResponse)
  /\ UNCHANGED <<localStorage, restored, calls, dataVars>>

NextRerun ==
  \/ Next
  \/ RestoreAgain

SpecRerun == Init /\ [][NextRerun]_vars

(***************************************************************************)
(* The session store under the scheduling the runtime guarantees: the      *)
(* mount effect runs, and the network call of every attempt returns.  One  *)
(* 2xx body and one failure are enough to tell the outcomes apart.         *)
(***************************************************************************)
LiveResponses ==
  { [token |-> [auth_token |-> "T2", refresh_token |-> "R2"],
     user |-> User("1", "u", "u@x.com", "user")] }

Settle(i) ==
  \/ \E response \in LiveResponses : LoginSuccess(i, response)
  \/ \E error \in { "401" } : LoginFailure(i, error)
  \/ \E response \in LiveResponses : RegisterSuccess(i, response)
  \/ \E error \in { "401" } : RegisterFailure(i, error)

LiveNext ==
  \/ Restore
  \/ \E credentials \in LoginRequest : Login(credentials)
  \/ \E userData \in RegisterRequest : Register(userData)
  \/ \E i \in 1..Len(calls) : Settle(i)
  \/ Logout

Fairness ==
  /\ WF_vars(Restore)
  /\ \A i \in 1..MaxCalls : WF_vars(i \in 1..Len(calls) /\ Settle(i))

\* process starts: nothing stored, a stored session, a stored session whose
\* user entry does not parse
LiveStorages ==
  { ls \in InitialStorages :
      \/ DOMAIN ls = {}
      \/ DOMAIN ls = StorageKeys /\ ls["user"] \in { JSONstringify(User("2", "a", "a@x.com", "admin")), "not json" } }

LiveInit == Init /\ localStorage \in LiveStorages

FairSpec == LiveInit /\ [][LiveNext]_vars /\ Fairness

(***************************************************************************)
(* Properties of the session store.                                        *)
(***************************************************************************)
Persisted == DOMAIN localStorage \cap StorageKeys

\* non-empty id, non-empty name, role admin or user
WellFormedIdentity(u) ==
  /\ Truthy(Get(u, "_id"))
  /\ Truthy(Get(u, "username"))
  /\ Get(u, "role") \in { Str("admin"), Str("user") }

\* C1: after a login or register call succeeded, isAuthenticated is true,
\* user and token are the returned user and auth_token, and the three
\* entries hold the returned access token, refresh token and serialized user.
C1_SuccessAuthenticatesAndPersists ==
  last.op \in { "login_success", "register_success" } =>
    /\ isAuthenticated
    /\ state.user = last.response.user
    /\ state.token = Str(last.response.token.auth_token)
    /\ Persisted = StorageKeys
    /\ localStorage["auth_token"] = last.response.token.auth_token
    /\ localStorage["refresh_token"] = last.response.token.refresh_token
    /\ localStorage["user"] = JSONstringify(last.response.user)
    /\ JSONparse(localStorage["user"]) = last.response.user

C1_Witness ==
  /\ last.op = "register_success"
  /\ \E i \in 1..Len(calls) : calls[i].kind = "login" /\ calls[i].status = "fulfilled"
  /\ isAuthenticated
  /\ localStorage["refresh_token"] = "R2"

\* C2: after a login or register call failed, isAuthenticated is false and
\* none of the three entries is present, whatever the session and the storage
\* were when the call started.
C2_FailurePersistsNothing ==
  last.op \in { "login_failure", "register_failure" } =>
    ~isAuthenticated /\ Persisted = {}

\* C3: after logout, called in any session state, the three entries are
\* absent and the session is Anonymous: user and token null, loading false.
C3_LogoutClears ==
  last.op = "logout" =>
    /\ Persisted = {}
    /\ state.user = JSNull /\ state.token = JSNull /\ ~loading
    /\ ~isAuthenticated
    /\ Anonymous

C3_Witness ==
  /\ last.op = "logout"
  /\ last.pre = "Authenticating" /\ last.preAuth
  /\ \E i \in 1..Len(calls) : calls[i].status = "pending"

C5_RestoreNeedsAllThree ==
  last.op = "restore" =>
    /\ Authenticated => Persisted = StorageKeys
    /\ Persisted # StorageKeys => Anonymous

\* C5 amended: restore yields Authenticated only if the auth_token and user
\* entries are present, and Anonymous if either of the two is absent; the
\* refresh_token entry is not consulted.
C5_RestoreNeedsTokenAndUser ==
  last.op = "restore" =>
    /\ Authenticated => { "auth_token", "user" } \subseteq Persisted
    /\ ~({ "auth_token", "user" } \subseteq Persisted) => Anonymous

C5_Witness ==
  /\ last.op = "restore"
  /\ Persisted = { "auth_token", "user" }
  /\ Authenticated

\* C6: in every reachable state isAdmin is true exactly when isAuthenticated
\* is true and the role of the session user is admin.
C6_IsAdminIffAuthenticatedAdmin ==
  contextValue.isAdmin <=>
    (contextValue.isAuthenticated /\ Get(contextValue.user, "role") = Str("admin"))

C6_Witness ==
  /\ contextValue.isAdmin
  /\ contextValue.isAuthenticated
  /\ last.op = "login_success"

\* C7: whenever the session is Anonymous, none of the three entries is
\* present in storage.
C7_AnonymousHasNoPersistedCopy == Anonymous => Persisted = {}

\* C8: whenever the session is Authenticated, the identity is well-formed
\* and the access token is a non-empty string.
C8_AuthenticatedIsWellFormed ==
  Authenticated =>
    /\ WellFormedIdentity(state.user)
    /\ state.token.type = "string" /\ state.token.val # ""

\* C9: in no reachable state are loading and isAuthenticated both true.
C9_LoadingExcludesAuthenticated == ~(loading /\ isAuthenticated)

\* C10 as stated: a step from Authenticated to Anonymous is a logout.
C10_OnlyLogoutLeavesAuthenticated ==
  [][(Authenticated /\ Anonymous') => last'.op = "logout"]_vars

\* C10 amended: a step on which the session stops being authenticated, so
\* every step from Authenticated to Anonymous, is a logout or the failure of
\* a login or register call.
C10_LogoutOrFailureLeavesAuthenticated ==
  [][(isAuthenticated /\ ~isAuthenticated') =>
       /\ last'.op \in { "logout", "login_failure", "register_failure" }
       /\ Anonymous']_vars

C10_Witness ==
  /\ last.op = "login_failure"
  /\ last.pre = "Authenticated"
  /\ Anonymous

AllSettled == \A i \in 1..Len(calls) : calls[i].status # "pending"

\* C11: loading is true exactly when restore has not run yet or at least
\* one login or register attempt has started and not yet resolved.
C11_LoadingIffUnknownOrInFlight ==
  loading <=> (~restored \/ \E i \in 1..Len(calls) : calls[i].status = "pending")

LastSettledOverlapped ==
  /\ last.op \in { "login_success", "register_success", "login_failure", "register_failure" }
  /\ AllSettled
  /\ last.call < Len(calls)

\* C13: when two attempts overlapped and both have resolved, the session
\* state and the persisted entries are those of the outcome of the attempt
\* that resolved last: the returned session if it succeeded, the Anonymous
\* session with nothing persisted if it failed after the other succeeded.
C13_LastToResolveWins ==
  LastSettledOverlapped =>
    /\ last.op \in { "login_success", "register_success" } =>
         /\ isAuthenticated
         /\ state.user = last.response.user
         /\ state.token = Str(last.response.token.auth_token)
         /\ localStorage = storeSession(localStorage, last.response)
    /\ (/\ last.op \in { "login_failure", "register_failure" }
        /\ \E j \in (last.call + 1)..Len(calls) : calls[j].status = "fulfilled") =>
         /\ ~isAuthenticated
         /\ state.user = JSNull /\ state.token = JSNull
         /\ Persisted = {}

\* C14: a failed login or register attempt rejects its promise with the
\* error of the API call, with the session moved to Anonymous, and does not
\* resolve it successfully.
C14_FailureIsResignalled ==
  last.op \in { "login_failure", "register_failure" } =>
    /\ calls[last.call].status = last.error
    /\ calls[last.call].status \in Errors
    /\ calls[last.call].status # "fulfilled"
    /\ Anonymous

C14_Witness ==
  /\ last.op = "register_failure"
  /\ calls[last.call].status = "401"
  /\ Anonymous

\* C15: after process start the session eventually becomes Authenticated or
\* Anonymous, and every attempt in flight is eventually resolved in a state
\* with loading false.
C15_TransientStatesEnd ==
  /\ <>(Authenticated \/ Anonymous)
  /\ \A i \in 1..MaxCalls :
       (i \in 1..Len(calls) /\ calls[i].status = "pending")
         ~> (i \in 1..Len(calls) /\ calls[i].status # "pending" /\ last.call = i /\ ~loading)

C15_Witness ==
  /\ last.op = "register_failure"
  /\ AllSettled
  /\ Len(calls) = MaxCalls
  /\ ~loading

(***************************************************************************)
(* The API access layer: query strings.  A text is spelled as a sequence   *)
(* of pieces, each a run of unreserved characters or one reserved          *)
(* character, so that escaping is visible.                                 *)
(***************************************************************************)
Text(pieces) == [type |-> "text", val |-> pieces]
Num(n) == [type |-> "number", val |-> n]

\* the escape of one piece in a query string
encodePiece(p) ==
  CASE p = "&" -> "%26"
    [] p = "=" -> "%3D"
    [] p = "?" -> "%3F"
    [] p = "+" -> "%2B"
    [] p = " " -> "+"
    [] OTHER -> p

encode(text) == [i \in 1..Len(text) |-> encodePiece(text[i])]

\* String(value)
String(v) == IF v.type = "number" THEN << ToString(v.val) >> ELSE v.val

\* a filter field that is serialized: defined and not empty
isPresent(v) ==
  /\ v.type \notin { "undefined", "null" }
  /\ ~(v.type = "text" /\ v.val = <<>>)

\* the entries appended to the URLSearchParams, in the order of the object
RECURSIVE searchParams(_)
searchParams(entries) ==
  IF entries = <<>> THEN <<>>
  ELSE (IF isPresent(Head(entries)[2])
        THEN << <<Head(entries)[1], String(Head(entries)[2])>> >>
        ELSE <<>>) \o searchParams(Tail(entries))

\* URLSearchParams.toString()
RECURSIVE toQueryString(_)
toQueryString(sp) ==
  IF sp = <<>> THEN <<>>
  ELSE encode(<< Head(sp)[1] >>) \o << "=" >> \o encode(Head(sp)[2])
         \o (IF Len(sp) > 1 THEN << "&" >> ELSE <<>>) \o toQueryString(Tail(sp))

buildQueryParams(params) == toQueryString(searchParams(params.val))

\* BooksService.getBooks: the path requested
getBooksPath_dropsFilters(filters) == << "/books" >>

getBooksPath(filters) ==
  << "/books" >> \o (IF Truthy(filters) THEN << "?" >> \o buildQueryParams(filters) ELSE <<>>)

\* LoansService.getUserLoans: the path requested
getUserLoansPath(userId, filters) ==
  << "/loans/user/", userId >>
    \o (IF Truthy(filters) THEN << "?" >> \o buildQueryParams(filters) ELSE <<>>)

\* how the receiver of a request reads its query string back
decodePiece(p) ==
  CASE p = "%26" -> "&"
    [] p = "%3D" -> "="
    [] p = "%3F" -> "?"
    [] p = "%2B" -> "+"
    [] p = "+" -> " "
    [] OTHER -> p

decode(text) == [i \in 1..Len(text) |-> decodePiece(text[i])]

RECURSIVE splitOn(_, _)
splitOn(s, sep) ==
  IF \A i \in 1..Len(s) : s[i] # sep THEN << s >>
  ELSE LET i == CHOOSE i \in 1..Len(s) : s[i] = sep /\ \A j \in 1..(i - 1) : s[j] # sep
       IN << SubSeq(s, 1, i - 1) >> \o splitOn(SubSeq(s, i + 1, Len(s)), sep)

parsePair(p) ==
  LET kv == splitOn(p, "=")
  IN << decode(kv[1]), IF Len(kv) > 1 THEN decode(kv[2]) ELSE <<>> >>

parseQuery(q) ==
  IF q = <<>> THEN <<>>
  ELSE [i \in 1..Len(splitOn(q, "&")) |-> parsePair(splitOn(q, "&")[i])]

\* the query part of a path: what follows the "?"
queryOf(path) ==
  IF \E i \in 1..Len(path) : path[i] = "?"
  THEN SubSeq(path, 1 + (CHOOSE i \in 1..Len(path) : path[i] = "?"), Len(path))
  ELSE <<>>

\* filter objects a caller of useBooks / useUserLoans passes
TitleValues ==
  { Undefined, Text(<<>>), Text(<< "Harry" >>), Text(<< "a", "&", "b" >>),
    Text(<< "x", "=", "y", " ", "z" >>) }

BookFilters ==
  LET GenreValues == { Undefined, Text(<<>>), Text(<< "Fiction" >>) }
      PageValues == { Num(2) }
      Field(key, values) == { <<>> } \cup { << <<key, v>> >> : v \in values }
  IN { Obj(t \o g \o pg) :
         t \in Field("title", TitleValues), g \in Field("genre", GenreValues),
         pg \in Field("page", PageValues) }

(***************************************************************************)
(* The API access layer: services and transport.                           *)
(***************************************************************************)
MaxApiCalls == 2

\* the calls in flight or settled in the specification of the whole data layer
MaxDataCalls == 1

Bool(b) == [type |-> "boolean", val |-> b]

\* the operations of the hooks, by what their promise carries
EntityOps ==
  { "createBook", "updateBook", "borrowBook", "createUser", "updateUser",
    "createCategory", "updateCategory" }
MutationOps ==
  EntityOps \cup { "deleteBook", "returnBook", "extendLoan", "deleteUser", "deleteCategory" }

hookOf(op) ==
  CASE op \in { "createBook", "updateBook", "deleteBook" } -> "useBookMutations"
    [] op \in { "borrowBook", "returnBook", "extendLoan" } -> "useLoanMutations"
    [] op \in { "createUser", "updateUser", "deleteUser" } -> "useUserMutations"
    [] op \in { "createCategory", "updateCategory", "deleteCategory" } -> "useCategoryMutations"
    [] OTHER -> "useBooks"

Request(method, path) == [method |-> method, path |-> path]

\* the service method an operation awaits, as the call of ApiService it makes
endpointOf(op, filters) ==
  CASE op = "fetchBooks" -> Request("GET", getBooksPath(filters))
    [] op = "fetchUserLoans" ->
         Request("GET", getUserLoansPath(Get(state.user, "_id").val, filters))
    [] op = "createBook" -> Request("POST", << "/books" >>)
    [] op = "updateBook" -> Request("PUT", << "/books/", "1" >>)
    [] op = "deleteBook" -> Request("DELETE", << "/books/", "1" >>)
    [] op = "borrowBook" -> Request("POST", << "/loans" >>)
    [] op = "returnBook" -> Request("PUT", << "/loans/", "1", "/return" >>)
    [] op = "extendLoan" -> Request("PUT", << "/loans/", "1", "/extend" >>)
    [] op = "createUser" -> Request("POST", << "/users" >>)
    [] op = "updateUser" -> Request("PUT", << "/users/", "1" >>)
    [] op = "deleteUser" -> Request("DELETE", << "/users/", "1" >>)
    [] op = "createCategory" -> Request("POST", << "/categories" >>)
    [] op = "updateCategory" -> Request("PUT", << "/categories/", "1" >>)
    [] op = "deleteCategory" -> Request("DELETE", << "/categories/", "1" >>)

\* the calls of ApiService one service method makes
serviceCalls_callsTwice(op, filters) == << endpointOf(op, filters), endpointOf(op, filters) >>

serviceCalls(op, filters) == << endpointOf(op, filters) >>

AuthEndpoints == { "/auth/login", "/auth/register" }

\* the authorization header ApiService puts on a request
NoHeader == Undefined
Bearer(token) == Str("Bearer " \o token)

authorizationHeader(request) ==
  IF request.path[1] \in AuthEndpoints THEN NoHeader
  ELSE IF isAuthenticated THEN Bearer(state.token.val) ELSE NoHeader

\* the responses of the server: a 2xx, a rejected token, a forbidden
\* operation, a server failure with no message in its body
HttpResponses ==
  { [status |-> 200, message |-> ""],
    [status |-> 401, message |-> "Unauthorized"],
    [status |-> 403, message |-> "Forbidden"],
    [status |-> 500, message |-> ""] }

NoHttp == [status |-> 0, message |-> ""]

\* the decoded body of a 2xx response, typed per endpoint
bodyOf(op, request) ==
  CASE op = "fetchBooks" -> Obj(<< <<"matching", queryOf(request.path)>> >>)
    [] op = "returnBook" -> Obj(<< <<"isOverdue", "false">> >>)
    [] op = "extendLoan" -> Obj(<< <<"additionalDays", "7">> >>)
    [] op \in { "deleteBook", "deleteUser", "deleteCategory" } -> Undefined
    [] OTHER -> Obj(<< <<"_id", "1">> >>)

NoApiError == [status |-> 0, message |-> ""]

\* ApiService: what a call returns or throws for a response
apiResult(op, request, response) ==
  IF response.status \in 200..299
  THEN [ok |-> TRUE, value |-> bodyOf(op, request), error |-> NoApiError]
  ELSE [ok |-> FALSE, value |-> Undefined,
        error |-> [status |-> response.status,
                   message |-> IF response.message # "" THEN response.message
                               ELSE "Request failed"]]

\* ApiService: the requests sent again after a response
retriesAfter(response) == 0

\* ApiService: what a rejected response does to the persisted session
onResponseError(ls, error) == ls

(***************************************************************************)
(* The hooks.                                                              *)
(***************************************************************************)
Promise(status, value) == [status |-> status, value |-> value]

\* the try block of a mutation operation: return the entity, or true
mutationTry(op, body) ==
  Promise("fulfilled", IF op \in EntityOps THEN body ELSE Bool(TRUE))

\* the catch block of a mutation operation: toast, return null or false
mutationCatch_rethrows(op, error) == Promise("rejected", Str(error.message))

mutationCatch(op, error) ==
  Promise("fulfilled", IF op \in EntityOps THEN JSNull ELSE Bool(FALSE))

\* the body of a request, as far as the pages set it
NoData == [additionalDays |-> 0]

\* the responses that have arrived so far
Arrivals == Cardinality({ k \in 1..Len(apiCalls) : apiCalls[k].response # NoHttp })

\* a call of the API a hook operation has started
ApiCall(op, filters) ==
  [op |-> op,
   request |-> serviceCalls(op, filters)[1],
   header |-> authorizationHeader(serviceCalls(op, filters)[1]),
   sent |-> Len(serviceCalls(op, filters)),
   response |-> NoHttp,
   api |-> [ok |-> FALSE, value |-> Undefined, error |-> NoApiError],
   arrived |-> 0,
   data |-> NoData,
   promise |-> Promise("pending", Undefined)]

\* useBooks: fetchBooks up to the await
StartFetchBooks ==
  /\ restored
  /\ Len(apiCalls) < MaxApiCalls
  /\ booksHook' = [booksHook EXCEPT !.loading = TRUE, !.error = JSNull]
  /\ apiCalls' = Append(apiCalls, ApiCall("fetchBooks", booksHook.filters))
  /\ UNCHANGED <<sessionVars, mutLoading, pageVars>>

\* useBooks: fetchBooks after the await, the call returned
FetchBooksSuccess_ignoresStale(i, response) ==
  /\ apiCalls[i].op = "fetchBooks"
  /\ apiCalls[i].promise.status = "pending"
  /\ apiResult("fetchBooks", apiCalls[i].request, response).ok
  /\ booksHook' = [booksHook EXCEPT !.books = IF i = Len(apiCalls)
                                               THEN apiResult("fetchBooks", apiCalls[i].request, response).value
                                               ELSE @,
                                    !.loading = FALSE]
  /\ apiCalls' = [apiCalls EXCEPT ![i].response = response,
                                  ![i].arrived = Arrivals + 1,
                                  ![i].api = apiResult("fetchBooks", apiCalls[i].request, response),
                                  ![i].promise = Promise("fulfilled", Undefined)]
  /\ UNCHANGED <<sessionVars, mutLoading, pageVars>>

FetchBooksSuccess(i, response) ==
  /\ apiCalls[i].op = "fetchBooks"
  /\ apiCalls[i].promise.status = "pending"
  /\ apiResult("fetchBooks", apiCalls[i].request, response).ok
  /\ booksHook' = [booksHook EXCEPT !.books = apiResult("fetchBooks", apiCalls[i].request, response).value,
                                    !.loading = FALSE]
  /\ apiCalls' = [apiCalls EXCEPT ![i].response = response,
                                  ![i].arrived = Arrivals + 1,
                                  ![i].api = apiResult("fetchBooks", apiCalls[i].request, response),
                                  ![i].promise = Promise("fulfilled", Undefined)]
  /\ UNCHANGED <<sessionVars, mutLoading, pageVars>>

\* useBooks: fetchBooks after the await, the call threw
FetchBooksFailure_forcesLogout(i, response) ==
  /\ apiCalls[i].op = "fetchBooks"
  /\ apiCalls[i].promise.status = "pending"
  /\ ~apiResult("fetchBooks", apiCalls[i].request, response).ok
  /\ booksHook' = [booksHook EXCEPT !.error = Str(apiResult("fetchBooks", apiCalls[i].request, response).error.message),
                                    !.loading = FALSE]
  /\ apiCalls' = [apiCalls EXCEPT ![i].response = response,
                                  ![i].arrived = Arrivals + 1,
                                  ![i].api = apiResult("fetchBooks", apiCalls[i].request, response),
                                  ![i].sent = @ + retriesAfter(response),
                                  ![i].promise = Promise("fulfilled", Undefined)]
  /\ localStorage' = IF response.status = 401 THEN clearSession(localStorage) ELSE localStorage
  /\ state' = IF response.status = 401
              THEN authReducer(state, [type |-> "LOGOUT", payload |-> NoPayload])
              ELSE state
  /\ UNCHANGED <<restored, calls, last, mutLoading, pageVars>>

FetchBooksFailure(i, response) ==
  /\ apiCalls[i].op = "fetchBooks"
  /\ apiCalls[i].promise.status = "pending"
  /\ ~apiResult("fetchBooks", apiCalls[i].request, response).ok
  /\ booksHook' = [booksHook EXCEPT !.error = Str(apiResult("fetchBooks", apiCalls[i].request, response).error.message),
                                    !.loading = FALSE]
  /\ apiCalls' = [apiCalls EXCEPT ![i].response = response,
                                  ![i].arrived = Arrivals + 1,
                                  ![i].api = apiResult("fetchBooks", apiCalls[i].request, response),
                                  ![i].sent = @ + retriesAfter(response),
                                  ![i].promise = Promise("fulfilled", Undefined)]
  /\ localStorage' = onResponseError(localStorage, apiResult("fetchBooks", apiCalls[i].request, response).error)
  /\ UNCHANGED <<state, restored, calls, last, mutLoading, pageVars>>

\* a mutation operation up to the await
StartMutation(op) ==
  /\ restored
  /\ Len(apiCalls) < MaxApiCalls
  /\ mutLoading' = [mutLoading EXCEPT ![hookOf(op)] = TRUE]
  /\ apiCalls' = Append(apiCalls, ApiCall(op, Undefined))
  /\ UNCHANGED <<sessionVars, booksHook, pageVars>>

\* a mutation operation after the await, the call returned
MutationSuccess(i, response) ==
  /\ apiCalls[i].op \in MutationOps
  /\ apiCalls[i].promise.status = "pending"
  /\ apiResult(apiCalls[i].op, apiCalls[i].request, response).ok
  /\ mutLoading' = [mutLoading EXCEPT ![hookOf(apiCalls[i].op)] = FALSE]
  /\ apiCalls' = [apiCalls EXCEPT ![i].response = response,
                                  ![i].arrived = Arrivals + 1,
                                  ![i].api = apiResult(apiCalls[i].op, apiCalls[i].request, response),
                                  ![i].promise = mutationTry(apiCalls[i].op,
                                                   apiResult(apiCalls[i].op, apiCalls[i].request, response).value)]
  /\ UNCHANGED <<sessionVars, booksHook, pageVars>>

\* a mutation operation after the await, the call threw
MutationFailure(i, response) ==
  /\ apiCalls[i].op \in MutationOps
  /\ apiCalls[i].promise.status = "pending"
  /\ ~apiResult(apiCalls[i].op, apiCalls[i].request, response).ok
  /\ mutLoading' = [mutLoading EXCEPT ![hookOf(apiCalls[i].op)] = FALSE]
  /\ apiCalls' = [apiCalls EXCEPT ![i].response = response,
                                  ![i].arrived = Arrivals + 1,
                                  ![i].api = apiResult(apiCalls[i].op, apiCalls[i].request, response),
                                  ![i].sent = @ + retriesAfter(response),
                                  ![i].promise = mutationCatch(apiCalls[i].op,
                                                   apiResult(apiCalls[i].op, apiCalls[i].request, response).error)]
  /\ localStorage' = onResponseError(localStorage, apiResult(apiCalls[i].op, apiCalls[i].request, response).error)
  /\ UNCHANGED <<state, restored, calls, last, booksHook, pageVars>>

\* the session store with the pages that use the hooks mounted
DataNext ==
  \/ Restore
  \/ \E credentials \in LoginRequest : calls = <<>> /\ Login(credentials)
  \/ \E userData \in RegisterRequest : calls = <<>> /\ Register(userData)
  \/ \E i \in 1..Len(calls) : Settle(i)
  \/ Logout
  \/ Len(apiCalls) < MaxDataCalls /\ StartFetchBooks
  \/ \E i \in 1..Len(apiCalls), response \in HttpResponses : FetchBooksSuccess(i, response)
  \/ \E i \in 1..Len(apiCalls), response \in HttpResponses : FetchBooksFailure(i, response)
  \/ \E op \in MutationOps : Len(apiCalls) < MaxDataCalls /\ StartMutation(op)
  \/ \E i \in 1..Len(apiCalls), response \in HttpResponses : MutationSuccess(i, response)
  \/ \E i \in 1..Len(apiCalls), response \in HttpResponses : MutationFailure(i, response)

DataSpec == LiveInit /\ [][DataNext]_vars

\* a page that mounts useBooks(initialFilters) and fetches the books
QueryInit ==
  /\ state = initialState
  /\ localStorage \in LiveStorages
  /\ restored = FALSE
  /\ calls = <<>>
  /\ last = [op |-> "init", call |-> 0, response |-> NoResponse, error |-> "",
             pre |-> "Unknown", preAuth |-> FALSE]
  /\ apiCalls = <<>>
  /\ booksHook \in { [initialBooksHook EXCEPT !.filters = f] : f \in BookFilters }
  /\ mutLoading = [h \in MutationHooks |-> FALSE]
  /\ PagesInit

QueryNext ==
  \/ Restore
  \/ Len(apiCalls) < MaxDataCalls /\ StartFetchBooks
  \/ \E i \in 1..Len(apiCalls), response \in HttpResponses : FetchBooksSuccess(i, response)
  \/ \E i \in 1..Len(apiCalls), response \in HttpResponses : FetchBooksFailure(i, response)

QuerySpec == QueryInit /\ [][QueryNext]_vars

(***************************************************************************)
(* The Books page and its useBooks instance.                               *)
(***************************************************************************)
\* useBooks.updateFilters: setFilters(prev => ({ ...prev, ...newFilters }))
updateFilters(prev, newFilters) ==
  LET HasKey(props, key) == \E i \in 1..Len(props) : props[i][1] = key
      ValueOf(props, key) == props[CHOOSE i \in 1..Len(props) : props[i][1] = key][2]
  IN Obj([i \in 1..Len(prev.val) |->
            IF HasKey(newFilters.val, prev.val[i][1])
            THEN << prev.val[i][1], ValueOf(newFilters.val, prev.val[i][1]) >>
            ELSE prev.val[i]]
         \o SelectSeq(newFilters.val, LAMBDA e : ~HasKey(prev.val, e[1])))

\* the filter object the Books page builds from its three inputs
pageFilters(page) ==
  Obj(<< <<"title", Text(page.searchTerm)>>, <<"author", Text(page.authorFilter)>>,
         <<"genre", Text(page.genreFilter)>> >>)

\* what the user types into the inputs
Titles == { <<>>, << "Harry" >>, << "Dune" >> }
Authors == { <<>>, << "Herbert" >> }
Genres == { <<>>, << "Fiction" >> }

\* Books mounts: useBooks({ title, author, genre }) and the effect fetches
MountBooks ==
  /\ restored
  /\ apiCalls = <<>>
  /\ booksHook' = [booksHook EXCEPT !.filters = pageFilters(booksPage),
                                    !.loading = TRUE, !.error = JSNull]
  /\ apiCalls' = Append(apiCalls, ApiCall("fetchBooks", pageFilters(booksPage)))
  /\ UNCHANGED <<sessionVars, mutLoading, pageVars>>

\* onChange of the three inputs
SetSearchTerm(v) ==
  /\ apiCalls # <<>>
  /\ booksPage' = [booksPage EXCEPT !.searchTerm = v]
  /\ UNCHANGED <<sessionVars, hookVars, loansPage, userLoansHook, statsHook, serverLoans>>

SetAuthorFilter(v) ==
  /\ apiCalls # <<>>
  /\ booksPage' = [booksPage EXCEPT !.authorFilter = v]
  /\ UNCHANGED <<sessionVars, hookVars, loansPage, userLoansHook, statsHook, serverLoans>>

SetGenreFilter(v) ==
  /\ apiCalls # <<>>
  /\ booksPage' = [booksPage EXCEPT !.genreFilter = v]
  /\ UNCHANGED <<sessionVars, hookVars, loansPage, userLoansHook, statsHook, serverLoans>>

\* the filters change: the hook renders again and its effect runs fetchBooks
RefetchWith(filters) ==
  /\ booksHook' = [booksHook EXCEPT !.filters = filters, !.loading = TRUE, !.error = JSNull]
  /\ apiCalls' = Append(apiCalls, ApiCall("fetchBooks", filters))

\* Books.handleSearch
HandleSearch ==
  /\ apiCalls # <<>>
  /\ RefetchWith(updateFilters(booksHook.filters, pageFilters(booksPage)))
  /\ UNCHANGED <<sessionVars, mutLoading, pageVars>>

\* Books.clearFilters, the handler of the Clear button
BooksClearFilters ==
  /\ apiCalls # <<>>
  /\ booksPage' = initialBooksPage
  /\ RefetchWith(updateFilters(booksHook.filters, Obj(<<>>)))
  /\ UNCHANGED <<sessionVars, mutLoading, loansPage, userLoansHook, statsHook, serverLoans>>

\* the answers of the server: a 2xx, or a failure with no message in its body
BooksResponses == { [status |-> 200, message |-> ""], [status |-> 500, message |-> ""] }

BooksNext ==
  \/ Restore
  \/ MountBooks
  \/ \E v \in Titles : SetSearchTerm(v)
  \/ \E v \in Authors : SetAuthorFilter(v)
  \/ \E v \in Genres : SetGenreFilter(v)
  \/ Len(apiCalls) < MaxApiCalls /\ HandleSearch
  \/ Len(apiCalls) < MaxApiCalls /\ BooksClearFilters
  \/ \E i \in 1..Len(apiCalls), response \in BooksResponses : FetchBooksSuccess(i, response)
  \/ \E i \in 1..Len(apiCalls), response \in BooksResponses : FetchBooksFailure(i, response)

\* the page is shown to a user whose session was restored
BooksInit ==
  /\ Init
  /\ DOMAIN localStorage = StorageKeys
  /\ localStorage["user"] = JSONstringify(User("2", "a", "a@x.com", "admin"))

BooksSpec == BooksInit /\ [][BooksNext]_vars

\* the Books page used by a user who waits for the list before the next
\* search or clear
MaxBookFetches == 3

PatientBooksNext ==
  \/ Restore
  \/ MountBooks
  \/ \E v \in Titles : SetSearchTerm(v)
  \/ \E v \in Authors : SetAuthorFilter(v)
  \/ \E v \in Genres : SetGenreFilter(v)
  \/ Len(apiCalls) < MaxBookFetches /\ (\A i \in 1..Len(apiCalls) : apiCalls[i].promise.status # "pending") /\ HandleSearch
  \/ Len(apiCalls) < MaxBookFetches /\ (\A i \in 1..Len(apiCalls) : apiCalls[i].promise.status # "pending") /\ BooksClearFilters
  \/ \E i \in 1..Len(apiCalls), response \in BooksResponses : FetchBooksSuccess(i, response)
  \/ \E i \in 1..Len(apiCalls), response \in BooksResponses : FetchBooksFailure(i, response)

PatientBooksSpec == BooksInit /\ [][PatientBooksNext]_vars

C17_OnlySessionOperationsChangeSession ==
  [][/\ (apiCalls' # apiCalls \/ booksHook' # booksHook \/ mutLoading' # mutLoading) =>
          /\ state' = state
          /\ isAuthenticated' = isAuthenticated
          /\ localStorage' = localStorage
     /\ (state' # state \/ localStorage' # localStorage) =>
          /\ last'.op \in { "restore", "login", "login_success", "login_failure",
                            "register", "register_success", "register_failure", "logout" }
          /\ last' # last \/ calls' # calls \/ restored' # restored]_vars

C17_Witness ==
  /\ Authenticated
  /\ Persisted = StorageKeys
  /\ Len(apiCalls) > 0
  /\ apiCalls[1].op = "fetchBooks"
  /\ apiCalls[1].promise.status = "fulfilled"
  /\ apiCalls[1].response.status = 401
  /\ apiCalls[1].header = Bearer(state.token.val)

\* the fields of a filter object, and those that are defined and not empty
FieldsOf(filters) == { filters.val[i] : i \in 1..Len(filters.val) }
DefinedFields(filters) ==
  { e \in FieldsOf(filters) : e[2] # Undefined /\ e[2] # JSNull /\ e[2] # Text(<<>>) }

\* the query string is exactly these fields, each as key=value
SerializesExactly(path, filters) ==
  LET parsed == parseQuery(queryOf(path))
  IN /\ Len(parsed) = Cardinality(DefinedFields(filters))
     /\ \A e \in DefinedFields(filters) :
          \E j \in 1..Len(parsed) : parsed[j] = << << e[1] >>, String(e[2]) >>
     /\ \A e \in FieldsOf(filters) \ DefinedFields(filters) :
          \A j \in 1..Len(parsed) : parsed[j][1] # << e[1] >>

\* C18: the query string of a request holds exactly the fields of the filter
\* object whose value is defined and not empty, each as an encoded key=value
\* pair that reads back as the field, and no field that is undefined or the
\* empty string; {title: "Harry", genre: ""} gives title=Harry.
C18_QueryHoldsExactlyDefinedFields ==
  /\ \A i \in 1..Len(apiCalls) :
       apiCalls[i].op = "fetchBooks" =>
         /\ SerializesExactly(apiCalls[i].request.path, booksHook.filters)
         /\ booksHook.filters = Obj(<< <<"title", Text(<< "Harry" >>)>>, <<"genre", Text(<<>>)>> >>)
              => apiCalls[i].request.path = << "/books", "?", "title", "=", "Harry" >>
  /\ SerializesExactly(getUserLoansPath("1", booksHook.filters), booksHook.filters)

C18_Witness ==
  /\ booksHook.filters =
       Obj(<< <<"title", Text(<< "a", "&", "b" >>)>>, <<"genre", Text(<<>>)>>, <<"page", Num(2)>> >>)
  /\ Len(apiCalls) > 0
  /\ apiCalls[1].request.path =
       << "/books", "?", "title", "=", "a", "%26", "b", "&", "page", "=", "2" >>

C20_MutationsNeverThrow ==
  \A i \in 1..Len(apiCalls) :
    apiCalls[i].op \in MutationOps =>
      /\ apiCalls[i].promise.status # "rejected"
      /\ (apiCalls[i].promise.status = "fulfilled" /\ ~apiCalls[i].api.ok) =>
           apiCalls[i].promise.value =
             (IF apiCalls[i].op \in EntityOps THEN JSNull ELSE Bool(FALSE))
      /\ (apiCalls[i].promise.status = "fulfilled" /\ apiCalls[i].api.ok) =>
           apiCalls[i].promise.value =
             (IF apiCalls[i].op \in EntityOps THEN bodyOf(apiCalls[i].op, apiCalls[i].request) ELSE Bool(TRUE))

C20_Witness ==
  \E i \in 1..Len(apiCalls) :
    /\ apiCalls[i].op = "extendLoan"
    /\ apiCalls[i].response.status = 403
    /\ apiCalls[i].promise = Promise("fulfilled", Bool(FALSE))
    /\ ~mutLoading["useLoanMutations"]

(***************************************************************************)
(* The mutation hooks used by a page that lets mutations overlap.          *)
(***************************************************************************)
MutationNext ==
  \/ Restore
  \/ \E op \in MutationOps : StartMutation(op)
  \/ \E i \in 1..Len(apiCalls), response \in BooksResponses : MutationSuccess(i, response)
  \/ \E i \in 1..Len(apiCalls), response \in BooksResponses : MutationFailure(i, response)

MutationSpec == BooksInit /\ [][MutationNext]_vars

(***************************************************************************)
(* The My Loans page, its useUserLoans and its useLoanMutations.           *)
(***************************************************************************)
MsPerDay == 1000 * 60 * 60 * 24

\* Math.ceil(diffTime / (1000 * 60 * 60 * 24)), as the floor of the opposite
getDaysUntilDue(dueDate, today) == -((-(dueDate - today)) \div MsPerDay)

\* LoanCard
isOverdue(loan, today) == getDaysUntilDue(loan.dueDate, today) < 0

isDueSoon(loan, today) ==
  getDaysUntilDue(loan.dueDate, today) <= 3 /\ getDaysUntilDue(loan.dueDate, today) >= 0

badge(loan, today) ==
  IF loan.returned THEN "Returned"
  ELSE IF isOverdue(loan, today) THEN "Overdue"
  ELSE IF isDueSoon(loan, today) THEN "Due Soon"
  ELSE "Active"

statusText(loan, today) ==
  IF isOverdue(loan, today) THEN "days overdue"
  ELSE IF getDaysUntilDue(loan.dueDate, today) = 0 THEN "Due today"
  ELSE "days remaining"

\* loan.extensionCount || 0
orZero(v) == IF v.type = "number" THEN v.val ELSE 0

mutationLoading == mutLoading["useLoanMutations"]

\* the cards are rendered when the list is not loading, with their buttons
\* when showActions && !loan.returned, showActions as the tab passes it
buttonsShown(loan) ==
  /\ ~userLoansHook.loading
  /\ CASE loansPage.activeTab = "active" -> TRUE
       [] loansPage.activeTab = "returned" -> FALSE
       [] loansPage.activeTab = "all" -> ~loan.returned
  /\ ~loan.returned

\* disabled of the Extend button
extendDisabled(loan) ==
  mutationLoading \/ isOverdue(loan, loansPage.now) \/ orZero(loan.extensionCount) >= 2

\* the loans a user can have on the server
Loans ==
  [id : { "7" }, returned : BOOLEAN,
   dueDate : { initialLoansPage.now + k * (MsPerDay \div 2) : k \in { -3, -2, -1, 0, 1, 6, 7 } },
   extensionCount : { Undefined, Num(0), Num(1), Num(2), Num(3) }]

\* the loans GET /loans/user/{userId}?status= answers with
statusOf(path) ==
  LET q == parseQuery(queryOf(path))
  IN IF \E j \in 1..Len(q) : q[j][1] = << "status" >>
     THEN (q[CHOOSE j \in 1..Len(q) : q[j][1] = << "status" >>][2])[1]
     ELSE "all"

loansFor(status, loans) ==
  SelectSeq(loans, LAMBDA l : \/ status = "all"
                              \/ status = "active" /\ ~l.returned
                              \/ status = "returned" /\ l.returned)

\* what PUT /loans/{id}/return and PUT /loans/{id}/extend do to the loan
afterMutation(op, loans, id, days) ==
  [k \in 1..Len(loans) |->
     IF loans[k].id # id THEN loans[k]
     ELSE IF op = "returnBook" THEN [loans[k] EXCEPT !.returned = TRUE]
     ELSE [loans[k] EXCEPT !.extensionCount = Num(orZero(@) + 1),
                           !.dueDate = @ + days * MsPerDay]]

\* useUserLoans: fetchUserLoans up to the await
fetchUserLoansStart(hook) == [hook EXCEPT !.loading = TRUE, !.error = JSNull]

\* MyLoans mounts (the effect of useUserLoans fetches) or Refresh is clicked
StartFetchUserLoans ==
  /\ restored
  /\ Truthy(Get(state.user, "_id"))
  /\ apiCalls # <<>> => ~userLoansHook.loading
  /\ userLoansHook' = fetchUserLoansStart(userLoansHook)
  /\ apiCalls' = Append(apiCalls, ApiCall("fetchUserLoans", userLoansHook.filters))
  /\ UNCHANGED <<sessionVars, booksHook, mutLoading, booksPage, loansPage, statsHook, serverLoans>>

\* useUserLoans: fetchUserLoans after the await
FetchUserLoansSuccess(i, response) ==
  /\ apiCalls[i].op = "fetchUserLoans"
  /\ apiCalls[i].promise.status = "pending"
  /\ response.status \in 200..299
  /\ userLoansHook' = [userLoansHook EXCEPT
                         !.loans = loansFor(statusOf(apiCalls[i].request.path), serverLoans),
                         !.loading = FALSE]
  /\ apiCalls' = [apiCalls EXCEPT ![i].response = response,
                                  ![i].arrived = Arrivals + 1,
                                  ![i].api = [ok |-> TRUE, value |-> Undefined, error |-> NoApiError],
                                  ![i].promise = Promise("fulfilled", Undefined)]
  /\ UNCHANGED <<sessionVars, booksHook, mutLoading, booksPage, loansPage, statsHook, serverLoans>>

FetchUserLoansFailure(i, response) ==
  /\ apiCalls[i].op = "fetchUserLoans"
  /\ apiCalls[i].promise.status = "pending"
  /\ ~apiResult("fetchUserLoans", apiCalls[i].request, response).ok
  /\ userLoansHook' = [userLoansHook EXCEPT
                         !.error = Str(apiResult("fetchUserLoans", apiCalls[i].request, response).error.message),
                         !.loading = FALSE]
  /\ apiCalls' = [apiCalls EXCEPT ![i].response = response,
                                  ![i].arrived = Arrivals + 1,
                                  ![i].api = apiResult("fetchUserLoans", apiCalls[i].request, response),
                                  ![i].sent = @ + retriesAfter(response),
                                  ![i].promise = Promise("fulfilled", Undefined)]
  /\ localStorage' = onResponseError(localStorage, apiResult("fetchUserLoans", apiCalls[i].request, response).error)
  /\ UNCHANGED <<state, restored, calls, last, booksHook, mutLoading, booksPage, loansPage, statsHook, serverLoans>>

\* Tabs onValueChange={setActiveTab}
SetActiveTab(tab) ==
  /\ restored
  /\ apiCalls # <<>>
  /\ loansPage' = [loansPage EXCEPT !.activeTab = tab]
  /\ UNCHANGED <<sessionVars, hookVars, booksPage, userLoansHook, statsHook, serverLoans>>

\* the call a button of a card starts
loanCall(op, loan) ==
  [ApiCall(op, Undefined) EXCEPT
     !.request = IF op = "returnBook"
                 THEN Request("PUT", << "/loans/", loan.id, "/return" >>)
                 ELSE Request("PUT", << "/loans/", loan.id, "/extend" >>),
     !.data = IF op = "extendLoan" THEN [additionalDays |-> 7] ELSE NoData]

\* handleReturnBook up to the await in returnBook
HandleReturnBook(loan) ==
  /\ buttonsShown(loan)
  /\ ~mutationLoading
  /\ mutLoading' = [mutLoading EXCEPT !["useLoanMutations"] = TRUE]
  /\ apiCalls' = Append(apiCalls, loanCall("returnBook", loan))
  /\ UNCHANGED <<sessionVars, booksHook, pageVars>>

\* handleExtendLoan up to the await in extendLoan
HandleExtendLoan(loan) ==
  /\ buttonsShown(loan)
  /\ ~extendDisabled(loan)
  /\ mutLoading' = [mutLoading EXCEPT !["useLoanMutations"] = TRUE]
  /\ apiCalls' = Append(apiCalls, loanCall("extendLoan", loan))
  /\ UNCHANGED <<sessionVars, booksHook, pageVars>>

\* handleReturnBook / handleExtendLoan after the await: success, so refetch()
LoanMutationSuccess(i, response) ==
  /\ apiCalls[i].op \in { "returnBook", "extendLoan" }
  /\ apiCalls[i].promise.status = "pending"
  /\ apiResult(apiCalls[i].op, apiCalls[i].request, response).ok
  /\ mutLoading' = [mutLoading EXCEPT !["useLoanMutations"] = FALSE]
  /\ serverLoans' = afterMutation(apiCalls[i].op, serverLoans, apiCalls[i].request.path[2],
                                  apiCalls[i].data.additionalDays)
  /\ userLoansHook' = fetchUserLoansStart(userLoansHook)
  /\ apiCalls' = Append(
       [apiCalls EXCEPT ![i].response = response,
                        ![i].arrived = Arrivals + 1,
                        ![i].api = apiResult(apiCalls[i].op, apiCalls[i].request, response),
                        ![i].promise = mutationTry(apiCalls[i].op,
                                         apiResult(apiCalls[i].op, apiCalls[i].request, response).value)],
       ApiCall("fetchUserLoans", userLoansHook.filters))
  /\ UNCHANGED <<sessionVars, booksHook, booksPage, loansPage, statsHook>>

\* the answers of the server to the My Loans page
LoansResponses == { [status |-> 200, message |-> ""], [status |-> 403, message |-> "Forbidden"] }

MaxLoanCalls == 3

LoansNext ==
  \/ Restore
  \/ Len(apiCalls) < MaxLoanCalls /\ StartFetchUserLoans
  \/ \E i \in 1..Len(apiCalls), response \in LoansResponses : FetchUserLoansSuccess(i, response)
  \/ \E i \in 1..Len(apiCalls), response \in LoansResponses : FetchUserLoansFailure(i, response)
  \/ \E tab \in { "active", "returned", "all" } : SetActiveTab(tab)
  \/ \E k \in 1..Len(userLoansHook.loans) :
       Len(apiCalls) + 1 < MaxLoanCalls /\ HandleReturnBook(userLoansHook.loans[k])
  \/ \E k \in 1..Len(userLoansHook.loans) :
       Len(apiCalls) + 1 < MaxLoanCalls /\ HandleExtendLoan(userLoansHook.loans[k])
  \/ \E i \in 1..Len(apiCalls), response \in LoansResponses : LoanMutationSuccess(i, response)
  \/ \E i \in 1..Len(apiCalls), response \in LoansResponses :
       apiCalls[i].op \in { "returnBook", "extendLoan" } /\ MutationFailure(i, response)

\* the page is shown to a user whose session was restored; the user has a loan
LoansInit ==
  /\ state = initialState
  /\ localStorage \in InitialStorages
  /\ DOMAIN localStorage = StorageKeys
  /\ localStorage["user"] = JSONstringify(User("2", "a", "a@x.com", "admin"))
  /\ restored = FALSE
  /\ calls = <<>>
  /\ last = [op |-> "init", call |-> 0, response |-> NoResponse, error |-> "",
             pre |-> "Unknown", preAuth |-> FALSE]
  /\ apiCalls = <<>>
  /\ booksHook = initialBooksHook
  /\ mutLoading = [h \in MutationHooks |-> FALSE]
  /\ booksPage = initialBooksPage
  /\ loansPage = initialLoansPage
  /\ userLoansHook = initialUserLoansHook
  /\ statsHook = initialStatsHook
  /\ serverLoans \in { << l >> : l \in Loans }

LoansSpec == LoansInit /\ [][LoansNext]_vars

(***************************************************************************)
(* useLoanStats: three statistics requests awaited together.               *)
(***************************************************************************)
MaxStatsFetches == 2

StatsOps == { "getLoanStats", "getActiveLoansCount", "getOverdueLoans" }

\* LoansService: the statistics endpoints
statsEndpoint(op) ==
  CASE op = "getLoanStats" -> Request("GET", << "/loans/stats/overview" >>)
    [] op = "getActiveLoansCount" -> Request("GET", << "/loans/stats/active-count" >>)
    [] op = "getOverdueLoans" -> Request("GET", << "/loans/stats/overdue" >>)

\* the decoded body of a statistics response when the server counts n loans
statsBody(op, n) ==
  CASE op = "getLoanStats" -> Obj(<< <<"totalLoans", n>> >>)
    [] op = "getActiveLoansCount" -> Obj(<< <<"activeLoansCount", n>> >>)
    [] op = "getOverdueLoans" -> [k \in 1..n |-> "7"]

\* fetchStats up to the await (the mount effect, or refetch): a call with
\* its three requests and the promise of Promise.all
StartFetchStats ==
  /\ restored
  /\ isAuthenticated
  /\ Len(statsHook.fetches) < MaxStatsFetches
  /\ statsHook' = [statsHook EXCEPT !.loading = TRUE, !.error = JSNull,
                                    !.fetches =
                                       Append(@, [requests |-> [op \in StatsOps |->
                                                                  [status |-> "pending", n |-> 0]],
                                                  all |-> "pending"])]
  /\ UNCHANGED <<sessionVars, hookVars, booksPage, loansPage, userLoansHook, serverLoans>>

\* the requests of a call of fetchStats once a response has been recorded
requestsAfter(f, op, status, n) ==
  [statsHook.fetches[f].requests EXCEPT ![op] = [status |-> status, n |-> n]]

\* Promise.all fulfils when every one of its promises has
allSucceeded(requests) == \A op \in StatsOps : requests[op].status = "ok"

\* a statistics request succeeds; fetchStats goes on after the await when it was the last
StatsSuccess_piecewise(f, op, response, n) ==
  /\ f \in 1..Len(statsHook.fetches)
  /\ statsHook.fetches[f].requests[op].status = "pending"
  /\ apiResult(op, statsEndpoint(op), response).ok
  /\ statsHook' =
       [statsHook EXCEPT
          !.fetches[f].requests = requestsAfter(f, op, "ok", n),
          !.fetches[f].all =
             IF @ = "pending" /\ allSucceeded(requestsAfter(f, op, "ok", n))
             THEN "fulfilled" ELSE @,
          !.stats = IF op = "getLoanStats" THEN statsBody(op, n) ELSE @,
          !.activeCount = IF op = "getActiveLoansCount" THEN n ELSE @,
          !.overdueLoans = IF op = "getOverdueLoans" THEN statsBody(op, n) ELSE @,
          !.loading = IF allSucceeded(requestsAfter(f, op, "ok", n)) THEN FALSE ELSE @]
  /\ UNCHANGED <<sessionVars, hookVars, booksPage, loansPage, userLoansHook, serverLoans>>

StatsSuccess(f, op, response, n) ==
  /\ f \in 1..Len(statsHook.fetches)
  /\ statsHook.fetches[f].requests[op].status = "pending"
  /\ apiResult(op, statsEndpoint(op), response).ok
  /\ statsHook' =
       IF statsHook.fetches[f].all = "pending" /\ allSucceeded(requestsAfter(f, op, "ok", n))
       THEN [statsHook EXCEPT
               !.fetches[f].requests = requestsAfter(f, op, "ok", n),
               !.fetches[f].all = "fulfilled",
               !.stats = statsBody("getLoanStats", requestsAfter(f, op, "ok", n)["getLoanStats"].n),
               !.activeCount =
                  Get(statsBody("getActiveLoansCount",
                                requestsAfter(f, op, "ok", n)["getActiveLoansCount"].n),
                      "activeLoansCount").val,
               !.overdueLoans =
                  statsBody("getOverdueLoans", requestsAfter(f, op, "ok", n)["getOverdueLoans"].n),
               !.loading = FALSE]
       ELSE [statsHook EXCEPT !.fetches[f].requests = requestsAfter(f, op, "ok", n)]
  /\ UNCHANGED <<sessionVars, hookVars, booksPage, loansPage, userLoansHook, serverLoans>>

\* a statistics request fails; Promise.all rejects with the first failure
\* and fetchStats goes on in its catch and finally blocks
StatsFailure(f, op, response) ==
  /\ f \in 1..Len(statsHook.fetches)
  /\ statsHook.fetches[f].requests[op].status = "pending"
  /\ ~apiResult(op, statsEndpoint(op), response).ok
  /\ statsHook' =
       IF statsHook.fetches[f].all = "pending"
       THEN [statsHook EXCEPT
               !.fetches[f].requests = requestsAfter(f, op, "failed", 0),
               !.fetches[f].all = "rejected",
               !.error =
                  IF apiResult(op, statsEndpoint(op), response).error.message # ""
                  THEN Str(apiResult(op, statsEndpoint(op), response).error.message)
                  ELSE Str("Failed to fetch loan statistics"),
               !.loading = FALSE]
       ELSE [statsHook EXCEPT !.fetches[f].requests = requestsAfter(f, op, "failed", 0)]
  /\ localStorage' = onResponseError(localStorage, apiResult(op, statsEndpoint(op), response).error)
  /\ UNCHANGED <<state, restored, calls, last, hookVars, booksPage, loansPage, userLoansHook, serverLoans>>

StatsNext ==
  \/ Restore
  \/ StartFetchStats
  \/ \E f \in 1..MaxStatsFetches, op \in StatsOps, response \in BooksResponses, n \in 1..2 :
       StatsSuccess(f, op, response, n)
  \/ \E f \in 1..MaxStatsFetches, op \in StatsOps, response \in BooksResponses :
       StatsFailure(f, op, response)

StatsSpec == BooksInit /\ [][StatsNext]_vars

(***************************************************************************)
(* Properties of the pages.                                                *)
(***************************************************************************)
\* C21: book fetches in flight at once are all kept, none is cancelled, and
\* the books displayed are those of the response that arrived last, also
\* when the request of that response was not the one issued last.
C21_LastArrivedResponseWins ==
  /\ \A i \in 1..Len(apiCalls) :
       apiCalls[i].op = "fetchBooks" =>
         /\ apiCalls[i].promise.status \in { "pending", "fulfilled" }
         /\ apiCalls[i].promise.status = "pending" <=> apiCalls[i].response = NoHttp
  /\ LET ArrivedBooks ==
           { i \in 1..Len(apiCalls) : apiCalls[i].op = "fetchBooks" /\ apiCalls[i].api.ok }
         LastArrivedBooks ==
           CHOOSE i \in ArrivedBooks :
             \A j \in ArrivedBooks : apiCalls[j].arrived <= apiCalls[i].arrived
     IN ArrivedBooks # {} => booksHook.books = apiCalls[LastArrivedBooks].api.value

C21_Witness ==
  /\ Len(apiCalls) = 2
  /\ \A i \in 1..2 : apiCalls[i].api.ok
  /\ apiCalls[1].arrived > apiCalls[2].arrived
  /\ apiCalls[1].request.path # apiCalls[2].request.path
  /\ booksHook.books = apiCalls[1].api.value
  /\ booksHook.books # apiCalls[2].api.value
  /\ booksHook.filters = pageFilters(booksPage)

\* C28: after the Clear action of the Books page the applied filters of
\* useBooks hold no title, author or genre, and the fetch the action starts
\* requests the catalog with no filter, whatever was applied before.
C28_ClearEmptiesFilters ==
  [][(apiCalls # <<>> /\ Len(apiCalls') = Len(apiCalls) + 1 /\ booksPage' = initialBooksPage) =>
       /\ DefinedFields(booksHook'.filters) = {}
       /\ queryOf(apiCalls'[Len(apiCalls')].request.path) = <<>>]_vars

\* C22: for a loan whose extension count has reached 2 the Extend action is
\* not available and no extend request is issued; for a loan that is not
\* returned, not overdue, has an extension count below 2 or none, with no
\* mutation in flight, it is available, and the request asks for 7 days.
C22_ExtensionRefusedFromTwo ==
  /\ [](\A k \in 1..Len(userLoansHook.loans) :
          LET loan == userLoansHook.loans[k]
              ExtendOffered == buttonsShown(loan) /\ ~extendDisabled(loan)
          IN /\ orZero(loan.extensionCount) >= 2 => ~ExtendOffered
             /\ (/\ ~userLoansHook.loading
                 /\ ~loan.returned
                 /\ ~isOverdue(loan, loansPage.now)
                 /\ orZero(loan.extensionCount) < 2
                 /\ \A i \in 1..Len(apiCalls) :
                      apiCalls[i].op \in MutationOps => apiCalls[i].promise.status # "pending")
                => ExtendOffered)
  /\ [][\A k \in 1..Len(userLoansHook.loans) :
          (/\ Len(apiCalls') = Len(apiCalls) + 1
           /\ apiCalls'[Len(apiCalls')].op = "extendLoan"
           /\ apiCalls'[Len(apiCalls')].request.path[2] = userLoansHook.loans[k].id) =>
            /\ orZero(userLoansHook.loans[k].extensionCount) < 2
            /\ apiCalls'[Len(apiCalls')].data.additionalDays = 7]_vars

\* C27: on My Loans, once all fetches have settled, the loans displayed are
\* those of a GET /loans/user/{userId} request whose status filter is the
\* tab the user has switched to.
C27_LoansShownAreThoseOfTheTab ==
  LET ArrivedLoans ==
        { i \in 1..Len(apiCalls) : apiCalls[i].op = "fetchUserLoans" /\ apiCalls[i].api.ok }
      LastArrivedLoans ==
        CHOOSE i \in ArrivedLoans :
          \A j \in ArrivedLoans : apiCalls[j].arrived <= apiCalls[i].arrived
      LoansSettled ==
        \A i \in 1..Len(apiCalls) :
          apiCalls[i].op = "fetchUserLoans" => apiCalls[i].promise.status # "pending"
  IN (LoansSettled /\ ArrivedLoans # {}) =>
       /\ statusOf(apiCalls[LastArrivedLoans].request.path) = loansPage.activeTab
       /\ apiCalls[LastArrivedLoans].request.path[1] = "/loans/user/"

\* C29: the card of a loan that is not returned is classified overdue
\* (Overdue badge, Extend disabled) exactly when its due date is strictly
\* earlier than the current time, and due today, due soon or active
\* otherwise; overdue and due soon are never both true.
C29_OverdueIffPastDue ==
  \A k \in 1..Len(userLoansHook.loans) :
    LET loan == userLoansHook.loans[k]
        PastDue(l) == l.dueDate < loansPage.now
    IN ~loan.returned =>
      /\ isOverdue(loan, loansPage.now) <=> PastDue(loan)
      /\ badge(loan, loansPage.now) = "Overdue" <=> PastDue(loan)
      /\ PastDue(loan) => extendDisabled(loan)
      /\ ~PastDue(loan) => /\ badge(loan, loansPage.now) \in { "Due Soon", "Active" }
                           /\ statusText(loan, loansPage.now) \in { "Due today", "days remaining" }
      /\ ~(isOverdue(loan, loansPage.now) /\ isDueSoon(loan, loansPage.now))

(***************************************************************************)
(* Properties of the routes and of the session store under overlap.        *)
(***************************************************************************)
\* C23: ProtectedRoute renders its children only when loading is false and
\* isAuthenticated is true and, with requireAdmin, isAdmin is true; in every
\* other state of the session it renders the loading placeholder or a
\* redirect.
C23_ChildrenOnlyWhenAllowed ==
  \A requireAdmin \in BOOLEAN :
    /\ ProtectedRoute(requireAdmin) = "children" <=>
         (~loading /\ isAuthenticated /\ (requireAdmin => isAdmin))
    /\ ProtectedRoute(requireAdmin) # "children" =>
         ProtectedRoute(requireAdmin) \in { "loading", "Navigate /login", "Navigate /" }

C23_Witness ==
  /\ Authenticated
  /\ ~isAdmin
  /\ last.op = "login_success"
  /\ ProtectedRoute(TRUE) = "Navigate /"
  /\ ProtectedRoute(FALSE) = "children"

\* C24: whenever isAuthenticated is true, the persisted auth_token is the
\* token of the session and the persisted user is the serialization of the
\* user of the session, whatever the interleaving of restore, login,
\* register, also overlapping, and logout.
C24_PersistedCopyMatchesSession ==
  isAuthenticated =>
    /\ { "auth_token", "user" } \subseteq DOMAIN localStorage
    /\ Str(localStorage["auth_token"]) = state.token
    /\ localStorage["user"] = JSONstringify(state.user)

C24_Witness ==
  /\ isAuthenticated
  /\ last.op = "register_success"
  /\ last.call < Len(calls)
  /\ calls[Len(calls)].status = "401"
  /\ localStorage["auth_token"] = last.response.token.auth_token

\* C25: a login or register attempt that was in flight when logout was
\* called does not authenticate the session again: when the operation
\* before was the logout, so that every attempt still pending was started
\* before it, the success of such an attempt leaves isAuthenticated false
\* and the persisted entries absent.
C25_LogoutOutlastsAttemptsInFlight ==
  [][(last.op = "logout" /\ last'.op \in { "login_success", "register_success" }) =>
       (~isAuthenticated' /\ Persisted' = {})]_vars

\* C26: the loading flag of a mutation hook is true whenever at least one
\* mutation started through the instance is still in flight and false only
\* when none is, also when two mutations of the instance overlap.
C26_MutationLoadingIffInFlight ==
  \A hook \in MutationHooks :
    mutLoading[hook] <=>
      \E i \in 1..Len(apiCalls) :
        /\ apiCalls[i].op \in MutationOps
        /\ hookOf(apiCalls[i].op) = hook
        /\ apiCalls[i].promise.status = "pending"

\* C30: useLoanStats updates its three results all-or-nothing. When a call of
\* fetchStats ends because one of its three requests failed, stats,
\* activeCount and overdueLoans keep their values and error is set; when all
\* three succeeded, the three are replaced by the three answers; loading is
\* false after either; no other step changes any of the three.
C30_StatsAllOrNothing ==
  [][ LET statsResults(hook) == <<hook.stats, hook.activeCount, hook.overdueLoans>>
          Settles(f, how) ==
            /\ f \in 1..Len(statsHook.fetches)
            /\ statsHook.fetches[f].all = "pending"
            /\ statsHook'.fetches[f].all = how
      IN
      /\ \A f \in 1..MaxStatsFetches :
           Settles(f, "rejected") =>
             /\ statsResults(statsHook') = statsResults(statsHook)
             /\ statsHook'.error # JSNull
             /\ ~statsHook'.loading
      /\ \A f \in 1..MaxStatsFetches :
           Settles(f, "fulfilled") =>
             /\ statsHook'.stats =
                  statsBody("getLoanStats", statsHook'.fetches[f].requests["getLoanStats"].n)
             /\ statsHook'.activeCount = statsHook'.fetches[f].requests["getActiveLoansCount"].n
             /\ statsHook'.overdueLoans =
                  statsBody("getOverdueLoans", statsHook'.fetches[f].requests["getOverdueLoans"].n)
             /\ ~statsHook'.loading
      /\ (\A f \in 1..MaxStatsFetches : ~Settles(f, "fulfilled")) =>
             statsResults(statsHook') = statsResults(statsHook)
    ]_vars

\* a refetch has failed after a fetch that succeeded: the results are still
\* those of the first
C30_Witness ==
  /\ Len(statsHook.fetches) = 2
  /\ statsHook.fetches[1].all = "fulfilled"
  /\ statsHook.fetches[2].all = "rejected"
  /\ statsHook.fetches[2].requests["getLoanStats"].status = "ok"
  /\ statsHook.fetches[2].requests["getLoanStats"].n # statsHook.fetches[1].requests["getLoanStats"].n
  /\ statsHook.stats = statsBody("getLoanStats", statsHook.fetches[1].requests["getLoanStats"].n)
  /\ statsHook.error # JSNull
  /\ ~statsHook.loading

=============================================================================
